---- MODULE Spec2Model ----
(***************************************************************************)
(* A model of the container fixture library: the specification builder,   *)
(* GenericContainerBuilder::create, the lifecycle calls of a              *)
(* GenericContainer (start / stop / kill / get_host_port), the readiness  *)
(* wait ReadyStrategy::wait and the port mapping of RunningState.         *)
(*                                                                         *)
(* Every async function is cut at its await points: one action issues a   *)
(* runtime call (up to the await), one action per call takes the answer   *)
(* of the runtime and runs the code up to the next await or the return.   *)
(* The answers of the container runtime are the inputs, drawn with \E.    *)
(* Time is counted in ticks of 100 ms, the polling interval.              *)
(***************************************************************************)
EXTENDS Integers, Sequences, FiniteSets, TLC

VARIABLES
    pc,              \* position of the caller's task in create / start / stop / kill
    params,          \* GenericContainerBuilder, kept as GenericContainer.params
    calls,           \* runtime calls create() has issued, in order, with their answers
    createResult,    \* what create() returned
    running_state,   \* ContainerClient.running_state: Option<RunningState>
    lock,            \* state of the RwLock around running_state
    now,             \* Instant::now(), in ticks since the wait began
    timeout_instant, \* the deadline computed by wait
    pollLate,        \* the poll in flight (or the last one) was issued after the deadline
    lastLogs,        \* text returned by the last logs() of the wait
    lastStreamErr,   \* the last log stream carried a read error
    lastHealth,      \* result of the last health_state() of the wait
    waitResult,      \* what the wait of the current / last start() returned
    lastOp,          \* the lifecycle call in progress or last returned
    lastResult,      \* its result, NoResult while it is in progress
    slotAtCall,      \* running_state as it was when that call began
    inspected,       \* the inspect response the published RunningState came from
    startedOk,       \* a start() succeeded since the last successful stop()/kill()
    rt_started,      \* the runtime start call succeeded and no runtime stop since
    lastRead,        \* result of get_host_port when it was the latest step
    blocked,         \* the executor thread is parked in RwLock::read
    envCalls,        \* the add_env calls made on the builder, in order
    fnArg,           \* argument of the pure function under check, if any
    fnRet            \* its result, NoResult until it has been applied

vars == <<pc, params, calls, createResult, running_state, lock, now,
          timeout_instant, pollLate, lastLogs, lastStreamErr, lastHealth,
          waitResult, lastOp, lastResult, slotAtCall, inspected, startedOk, rt_started,
          lastRead, blocked, envCalls, fnArg, fnRet>>

-----------------------------------------------------------------------------
(* Bounds of the model *)

\* largest start timeout, in ticks, given to with_start_timeout
MaxTimeout == 2
\* the clock of a wait is followed up to this tick
MaxClock == 3
\* a runtime query of the wait takes 0..MaxQueryTicks ticks
MaxQueryTicks == 1
\* a sleep of the wait oversleeps by 0..MaxOversleep ticks
MaxOversleep == 1
\* longest stream (log chunks, pull or build progress events)
MaxStream == 2

-----------------------------------------------------------------------------
(* Option and Result *)

None == <<>>
Some(x) == <<x>>
IsSome(o) == Len(o) = 1
Unwrap(o) == o[1]

Ok == <<"Ok">>
OkWith(v) == <<"Ok", v>>
Err(e) == <<"Err", e>>
IsOk(r) == Len(r) >= 1 /\ r[1] = "Ok"
IsErr(r) == Len(r) >= 1 /\ r[1] = "Err"
NoResult == <<>>

\* a wait that reports the deadline as a failure of the runtime client
TimeoutError_Generic == [kind |-> "Fault", message |-> "server error"]

\* the error wait() builds when the deadline has passed
TimeoutError ==
    [kind |-> "StringError", message |-> "Container takes too much time to be ready"]

\* errors the runtime client reports (transport or daemon failures)
RuntimeErrors ==
    { [kind |-> "Fault", message |-> "server error"],
      [kind |-> "StringError", message |-> "connection closed"] }

-----------------------------------------------------------------------------
(* Streams of the runtime client: pull, build and log streams yield items *)
(* that are either a chunk or a read error.                               *)

RECURSIVE SeqsUpTo(_, _)
SeqsUpTo(S, n) ==
    IF n = 0 THEN { <<>> }
    ELSE LET shorter == SeqsUpTo(S, n - 1)
         IN  shorter \cup { Append(s, x) : s \in { t \in shorter : Len(t) = n - 1 }, x \in S }

\* bytes of a log chunk: the text is a sequence of characters
LogChars == { "o", "k" }
\* the read error a log stream can yield in place of a chunk
LogReadError == [kind |-> "StringError", message |-> "connection closed"]
LogItems == { OkWith(c) : c \in LogChars } \cup { Err(LogReadError) }
LogStreams == SeqsUpTo(LogItems, MaxStream)

ProgressItems == { OkWith("progress") } \cup { Err(e) : e \in RuntimeErrors }
ProgressStreams == SeqsUpTo(ProgressItems, MaxStream)

\* DockerClient::pull and DockerClient::build: stop at the first error of the
\* stream and return it, Ok(()) when the stream ends
RECURSIVE DrainStream(_)
DrainStream(stream) ==
    IF stream = <<>> THEN Ok
    ELSE IF IsErr(Head(stream)) THEN Head(stream)
    ELSE DrainStream(Tail(stream))

\* the stream carries a read error
HasReadError(stream) == \E i \in 1..Len(stream) : IsErr(stream[i])

\* the map of ContainerClient::logs: a chunk gives its bytes, an error is logged
\* and gives no bytes
ChunkBytes(item) == IF IsOk(item) THEN << item[2] >> ELSE << >>

\* ContainerClient::logs: the bytes of all chunks, flattened; always Ok
RECURSIVE FlattenChunks(_)
FlattenChunks(stream) ==
    IF stream = <<>> THEN <<>>
    ELSE ChunkBytes(Head(stream)) \o FlattenChunks(Tail(stream))

\* a logs() that returns the first read error of the stream
logs_Propagating(stream) ==
    IF HasReadError(stream)
    THEN stream[CHOOSE i \in 1..Len(stream) : IsErr(stream[i])]
    ELSE OkWith(FlattenChunks(stream))

logs(stream) == OkWith(FlattenChunks(stream))

-----------------------------------------------------------------------------
(* ReadyStrategy and the predicates of its polling loop *)

StrategyNone == [kind |-> "None", regex |-> <<>>]
StateHealthy == [kind |-> "StateHealthy", regex |-> <<>>]
LogMessageRegExp(re) == [kind |-> "LogMessageRegExp", regex |-> re]

\* regular expressions given to wait_for_log_on_startup: literal patterns
Regexes == { <<"o", "k">> }

\* Regex::is_match of an unanchored literal: the pattern occurs somewhere in the text
is_match(re, text) ==
    \E i \in 0..(Len(text) - Len(re)) :
        \A j \in 1..Len(re) : text[i + j] = re[j]

\* the inspect responses health_state reads: state, state.health, health.status
HealthInspects ==
    { None,
      Some([health |-> None]),
      Some([health |-> Some([status |-> None])]),
      Some([health |-> Some([status |-> Some("")])]),
      Some([health |-> Some([status |-> Some("healthy")])]),
      Some([health |-> Some([status |-> Some("unhealthy")])]) }

\* ContainerClient::health_state on a successful inspect:
\* inspect.state.and_then(|state| state.health?.status)
health_state(state) ==
    IF state = None THEN None
    ELSE IF Unwrap(state).health = None THEN None
    ELSE Unwrap(Unwrap(state).health).status

\* the StateHealthy arm: Some(health_state) with health_state == ""
HealthReady(health) == IsSome(health) /\ Unwrap(health) = ""

\* the LogMessageRegExp arm
LogReady(re, text) == is_match(re, text)

\* a loop whose None arm does not return
PollQuery_NoneFallsThrough(strategy) ==
    IF strategy.kind = "LogMessageRegExp" THEN "logs" ELSE "health"

\* what one iteration of the loop asks the runtime
PollQuery(strategy) ==
    CASE strategy.kind = "LogMessageRegExp" -> "logs"
      [] strategy.kind = "StateHealthy" -> "health"
      [] strategy.kind = "None" -> "ready"

\* a deadline check that also fires at the deadline itself
DeadlineReached(deadline, t) == deadline <= t

\* a comparison that never finds the deadline passed
DeadlineNever(deadline, t) == FALSE

\* `timeout_instant < Instant::now()`
DeadlinePassed(deadline, t) == deadline < t

\* a loop iteration that looks at the deadline before the predicate's result
LoopStep_DeadlineFirst(ready, deadline, t) ==
    IF DeadlinePassed(deadline, t) THEN "timeout"
    ELSE IF ready THEN "ready"
    ELSE "sleep"

\* the tail of one loop iteration whose predicate has been evaluated
LoopStep(ready, deadline, t) ==
    IF ready THEN "ready"
    ELSE IF DeadlinePassed(deadline, t) THEN "timeout"
    ELSE "sleep"

\* tokio::time::sleep(Duration::from_millis(100)), in ticks
SleepInterval == 1
\* Duration::from_secs(30), in ticks
DefaultTimeout == 300

-----------------------------------------------------------------------------
(* RunningState and the port mapping taken from an inspect response *)

PortSpecs == { "5432/tcp", "80/tcp" }

\* a host port as the runtime reports it: a string of decimal digits
Port55000 == << 5, 5, 0, 0, 0 >>
Port55001 == << 5, 5, 0, 0, 1 >>

\* str::parse::<u16>: None for an empty string or a value above u16::MAX
RECURSIVE DecimalValue(_)
DecimalValue(digits) ==
    IF digits = <<>> THEN 0
    ELSE 10 * DecimalValue(SubSeq(digits, 1, Len(digits) - 1)) + digits[Len(digits)]

ParseU16(digits) ==
    IF digits = <<>> \/ Len(digits) > 5 \/ DecimalValue(digits) > 65535 THEN None
    ELSE Some(DecimalValue(digits))

Binding(ip, port) == [host_ip |-> ip, host_port |-> port]
Wildcard == "0.0.0.0"
Loopback == "127.0.0.1"

\* NetworkSettings values returned by inspect (Option<NetworkSettings>, whose
\* ports is an Option of a map from port spec to Option<Vec<PortBinding>>)
NetworkSettingsSamples ==
    { None,
      Some([ports |-> None]),
      Some([ports |-> Some(
          [p \in PortSpecs |->
              IF p = "5432/tcp" THEN Some(<< Binding(Some(Wildcard), Some(Port55000)) >>)
              ELSE Some(<< Binding(Some(Loopback), Some(Port55001)) >>)])]),
      Some([ports |-> Some(
          [p \in PortSpecs |->
              IF p = "5432/tcp"
              THEN Some(<< Binding(Some(Wildcard), Some(Port55000)),
                           Binding(Some(Wildcard), Some(Port55001)) >>)
              ELSE Some(<< Binding(None, Some(Port55001)),
                           Binding(Some(Wildcard), None) >>)])]),
      Some([ports |-> Some(
          [p \in PortSpecs |->
              IF p = "5432/tcp" THEN None
              ELSE Some(<< Binding(Some(Loopback), Some(Port55000)),
                           Binding(Some(Wildcard), Some(Port55001)) >>)])]),
      Some([ports |-> Some(
          [p \in { "80/tcp" } |-> Some(<< Binding(Some(Wildcard), Some(Port55000)) >>)])]) }

InspectResponses ==
    { [id |-> Some("c0ffee"), name |-> Some("/fixture"), network_settings |-> ns] :
        ns \in NetworkSettingsSamples }

\* the inner filter_map: a binding with both host_ip and host_port
CompleteBinding(b) == IsSome(b.host_ip) /\ IsSome(b.host_port)

\* an outer filter_map that keeps the bindings of every address
OnAnyAddress(b) == TRUE

\* the outer filter_map: the binding is on the wildcard address
OnWildcard(b) == Unwrap(b.host_ip) = Wildcard

\* the (spec, host_ip, host_port) triples of one port spec, in the order of its Vec
KeptBindings(host_ports) ==
    IF host_ports = None THEN <<>>
    ELSE LET complete == SelectSeq(Unwrap(host_ports), CompleteBinding)
         IN  SelectSeq(complete, OnWildcard)

\* collect() into the HashMap: a later entry of a key replaces an earlier one
CollectPorts(ports) ==
    LET kept == { p \in DOMAIN ports : KeptBindings(ports[p]) # <<>> }
    IN  [p \in kept |->
            LET bs == KeptBindings(ports[p])
            IN  Unwrap(ParseU16(Unwrap(bs[Len(bs)].host_port)))]

\* RunningState::extract_port_mapping
extract_port_mapping(network_settings) ==
    IF network_settings = None THEN None
    ELSE IF Unwrap(network_settings).ports = None THEN None
    ELSE Some(CollectPorts(Unwrap(Unwrap(network_settings).ports)))

EmptyPorts == [p \in {} |-> 0]

\* impl From<ContainerInspect200Response> for RunningState
RunningStateFrom(inspect) ==
    LET extracted == extract_port_mapping(inspect.network_settings)
    IN  [id |-> Unwrap(inspect.id),
         name |-> Unwrap(inspect.name),
         ports |-> IF extracted = None THEN EmptyPorts ELSE Unwrap(extracted)]

\* a publish that leaves the ports unresolved
PublishedState_Unresolved(inspect) ==
    Some([RunningStateFrom(inspect) EXCEPT !.ports = EmptyPorts])

\* `*rw_state = Some(running_state)` at the end of start_and_wait
PublishedState(inspect) == Some(RunningStateFrom(inspect))

\* a stop that leaves the slot as it is
ClearedState_Stale == running_state

\* `*rw_state = None` in stop and kill
ClearedState == None

\* a failed stop that clears the slot all the same
StateAfterFailedStop_Cleared(state) == None

\* what stop and kill leave in the slot when the runtime stop call failed:
\* the `?` returns before the slot is touched
StateAfterFailedStop(state) == state

\* a failed start that publishes a state all the same
StateAfterFailedStart_Published(state) ==
    Some([id |-> "c0ffee", name |-> "/fixture", ports |-> EmptyPorts])

\* a failed start that clears the slot
StateAfterFailedStart_Cleared(state) == None

\* what start_and_wait leaves in the slot when it fails: every `?` returns
\* before the assignment
StateAfterFailedStart(state) == state

\* GenericContainer::get_host_port on a slot value
get_host_port(state, container_port_spec) ==
    IF state = None THEN None
    ELSE IF container_port_spec \in DOMAIN Unwrap(state).ports
         THEN Some(Unwrap(state).ports[container_port_spec])
         ELSE None

-----------------------------------------------------------------------------
(* The builder *)

\* DockerImage.build_instructions of the image the builder is made from
BuildInstructions == { None, Some([path |-> "./fixture"]) }

\* HashMap::new() of environment_variables
EmptyEnv == [k \in {} |-> ""]

\* an insert that keeps the value a key already has
insert_KeepFirst(map, key, value) ==
    [k \in DOMAIN map \cup { key } |-> IF k \in DOMAIN map THEN map[k] ELSE value]

\* HashMap::insert: the value of the key is replaced, the other entries stay
insert(map, key, value) ==
    [k \in DOMAIN map \cup { key } |-> IF k = key THEN value ELSE map[k]]

\* GenericContainerBuilder::new
new(build_instructions) ==
    [build_instructions |-> build_instructions,
     environment_variables |-> EmptyEnv,
     wait_strategy_on_startup |-> StrategyNone,
     start_timeout |-> DefaultTimeout]

\* durations with_start_timeout is given, in ticks
Timeouts == 0..MaxTimeout

createVars == <<calls, createResult>>
waitVars == <<now, timeout_instant, pollLate, lastLogs, lastStreamErr, lastHealth, waitResult>>
handleVars == <<running_state, lock, lastOp, lastResult, slotAtCall, inspected, startedOk, rt_started>>
auxVars == <<envCalls, fnArg, fnRet>>

\* no call in progress, nothing created, started, polled or read yet
Quiescent ==
    /\ calls = <<>>
    /\ createResult = NoResult
    /\ running_state = None
    /\ lock = "free"
    /\ now = 0
    /\ timeout_instant = 0
    /\ pollLate = FALSE
    /\ lastLogs = None
    /\ lastStreamErr = FALSE
    /\ lastHealth = None
    /\ waitResult = NoResult
    /\ lastOp = "none"
    /\ lastResult = NoResult
    /\ slotAtCall = None
    /\ inspected = None
    /\ startedOk = FALSE
    /\ rt_started = FALSE
    /\ lastRead = None
    /\ blocked = FALSE

Init ==
    /\ pc = "builder"
    /\ params \in { new(b) : b \in BuildInstructions }
    /\ Quiescent
    /\ envCalls = <<>>
    /\ fnArg = None
    /\ fnRet = NoResult

\* GenericContainerBuilder::wait_for_log_on_startup
wait_for_log_on_startup(re) ==
    /\ pc = "builder"
    /\ params' = [params EXCEPT !.wait_strategy_on_startup = LogMessageRegExp(re)]
    /\ UNCHANGED <<pc, createVars, waitVars, handleVars, lastRead, blocked>>
    /\ UNCHANGED auxVars

\* the StateHealthy variant of the public enum ReadyStrategy as the builder's strategy
use_state_healthy ==
    /\ pc = "builder"
    /\ params' = [params EXCEPT !.wait_strategy_on_startup = StateHealthy]
    /\ UNCHANGED <<pc, createVars, waitVars, handleVars, lastRead, blocked>>
    /\ UNCHANGED auxVars

\* GenericContainerBuilder::with_start_timeout
with_start_timeout(duration) ==
    /\ pc = "builder"
    /\ params' = [params EXCEPT !.start_timeout = duration]
    /\ UNCHANGED <<pc, createVars, waitVars, handleVars, lastRead, blocked>>
    /\ UNCHANGED auxVars

-----------------------------------------------------------------------------
(* GenericContainerBuilder::create *)

\* the first runtime call of create: build when the image has build
\* instructions, the local-presence check otherwise
FirstCreateCall(build_instructions) ==
    IF IsSome(build_instructions) THEN "build" ELSE "imageExistsLocally"

\* a presence check read the wrong way round
NeedsPull_Inverted(exists) == exists

\* `else if !docker.image_exists_locally(..)`: pull when the image is absent
NeedsPull(exists) == ~exists

\* the call create issues once a step of the image resolution succeeded
NextCreateCall(done, exists) ==
    IF done = "imageExistsLocally" /\ NeedsPull(exists) THEN "pull"
    ELSE "createContainer"

PcOfCall(call) ==
    CASE call = "build" -> "create_build"
      [] call = "imageExistsLocally" -> "create_exists"
      [] call = "pull" -> "create_pull"
      [] call = "createContainer" -> "create_container"

\* the answer of the runtime to the call create awaits
Answered(r) == [calls EXCEPT ![Len(calls)].answer = r]

\* an Err of a step of create: the `?` returns it, no GenericContainer is made
CreateFails(r) ==
    /\ pc' = "create_failed"
    /\ createResult' = r
    /\ calls' = Answered(r)

CreateIssues(answered, call) ==
    /\ pc' = PcOfCall(call)
    /\ calls' = Append(answered, [call |-> call, answer |-> NoResult])
    /\ UNCHANGED createResult

create ==
    /\ pc = "builder"
    /\ CreateIssues(calls, FirstCreateCall(params.build_instructions))
    /\ UNCHANGED <<params, waitVars, handleVars, lastRead, blocked>>
    /\ UNCHANGED auxVars

\* docker.build(&build_opts).await?
build_returns(stream) ==
    /\ pc = "create_build"
    /\ LET r == DrainStream(stream)
       IN  IF IsErr(r) THEN CreateFails(r)
           ELSE CreateIssues(Answered(r), NextCreateCall("build", TRUE))
    /\ UNCHANGED <<params, waitVars, handleVars, lastRead, blocked>>
    /\ UNCHANGED auxVars

\* docker.image_exists_locally(&self.image).await?
image_exists_locally_returns(r) ==
    /\ pc = "create_exists"
    /\ IF IsErr(r) THEN CreateFails(r)
       ELSE CreateIssues(Answered(r), NextCreateCall("imageExistsLocally", r[2]))
    /\ UNCHANGED <<params, waitVars, handleVars, lastRead, blocked>>
    /\ UNCHANGED auxVars

\* docker.pull(&self.image).await?
pull_returns(stream) ==
    /\ pc = "create_pull"
    /\ LET r == DrainStream(stream)
       IN  IF IsErr(r) THEN CreateFails(r)
           ELSE CreateIssues(Answered(r), NextCreateCall("pull", FALSE))
    /\ UNCHANGED <<params, waitVars, handleVars, lastRead, blocked>>
    /\ UNCHANGED auxVars

\* docker.create(..).await? and ContainerClient::new: the handle exists, its
\* running_state is None
docker_create_returns(r) ==
    /\ pc = "create_container"
    /\ IF IsErr(r) THEN CreateFails(r)
       ELSE /\ pc' = "idle"
            /\ createResult' = Ok
            /\ calls' = Answered(r)
    /\ running_state' = None
    /\ UNCHANGED <<params, waitVars, lock, lastOp, lastResult, slotAtCall, inspected,
                   startedOk, rt_started, lastRead, blocked>>
    /\ UNCHANGED auxVars

-----
(* The lifecycle calls of a GenericContainer *)

\* positions at which the GenericContainer exists
HandlePcs == { "idle", "start_rt", "wait_logs", "wait_health", "wait_sleep", "inspect", "stop_rt" }

\* the runtime call the task awaits at a position
InFlight ==
    CASE pc = "start_rt" -> "start"
      [] pc = "wait_logs" -> "logs"
      [] pc = "wait_health" -> "inspect"
      [] pc = "inspect" -> "inspect"
      [] pc = "stop_rt" -> "stop"
      [] pc \in { "create_build", "create_exists", "create_pull", "create_container" } -> "create"
      [] OTHER -> "none"

WaitReset ==
    /\ now' = 0
    /\ timeout_instant' = 0
    /\ pollLate' = FALSE
    /\ lastLogs' = None
    /\ lastStreamErr' = FALSE
    /\ lastHealth' = None
    /\ waitResult' = NoResult

\* a lifecycle call begins: its runtime call is issued and awaited
Begins(op, at) ==
    /\ ~blocked
    /\ pc' = at
    /\ lastOp' = op
    /\ lastResult' = NoResult
    /\ slotAtCall' = running_state
    /\ lastRead' = None
    /\ WaitReset
    /\ UNCHANGED <<params, createVars, running_state, lock, inspected, startedOk,
                   rt_started, blocked>>
    /\ UNCHANGED auxVars

\* GenericContainer::start -> start_and_wait, up to inner_container.start().await
start ==
    /\ pc = "idle"
    /\ Begins("start", "start_rt")

\* GenericContainer::stop -> ContainerClient::stop, up to inner_container.stop(..).await
stop ==
    /\ pc = "idle"
    /\ Begins("stop", "stop_rt")

\* GenericContainer::kill -> ContainerClient::kill, up to inner_container.stop(SIGKILL).await
kill ==
    /\ pc = "idle"
    /\ Begins("kill", "stop_rt")

\* a failed start that stops the container it had started
RuntimeAfterFailedStart_Stopped(started) == FALSE

\* what a failing start_and_wait does to the container at the runtime: the `?`
\* returns, no stop or remove call is made
RuntimeAfterFailedStart(started) == started

\* start() returns r, an error: a `?` of start_and_wait fired
StartFails(r) ==
    /\ pc' = "idle"
    /\ lastResult' = r
    /\ running_state' = StateAfterFailedStart(running_state)
    /\ rt_started' = RuntimeAfterFailedStart(rt_started)

\* the loop issues the query of its strategy and awaits it
IssuePoll(q, deadline, t) ==
    /\ pc' = IF q = "logs" THEN "wait_logs" ELSE "wait_health"
    /\ pollLate' = DeadlinePassed(deadline, t)

\* wait returned Ok(()): start_and_wait takes the write lock, then awaits inspect
WaitSucceeds ==
    /\ waitResult' = Ok
    /\ lock' = "write"
    /\ pc' = "inspect"
    /\ UNCHANGED <<lastResult, running_state>>

\* wait returned an error, which the `?` of start_and_wait returns
WaitFails(r) ==
    /\ waitResult' = r
    /\ StartFails(r)
    /\ UNCHANGED lock

\* the rest of a loop iteration after its predicate was evaluated
WaitContinue(step) ==
    CASE step = "ready" -> WaitSucceeds /\ UNCHANGED rt_started
      [] step = "timeout" -> WaitFails(Err(TimeoutError))
      [] step = "sleep" ->
            /\ pc' = "wait_sleep"
            /\ UNCHANGED <<waitResult, lastResult, running_state, lock, rt_started>>

\* inner_container.start().await? returns; on Ok the wait begins: the deadline
\* is computed and the first iteration runs up to its await
inner_start_returns(r) ==
    /\ pc = "start_rt"
    /\ ~blocked
    /\ lastRead' = None
    /\ IF IsErr(r)
       THEN /\ StartFails(r)
            /\ UNCHANGED <<waitVars, lock>>
       ELSE /\ rt_started' = TRUE
            /\ now' = 0
            /\ timeout_instant' = now' + params.start_timeout
            /\ LET q == PollQuery(params.wait_strategy_on_startup)
               IN  IF q = "ready"
                   THEN WaitSucceeds /\ UNCHANGED pollLate
                   ELSE /\ IssuePoll(q, timeout_instant', now')
                        /\ UNCHANGED <<waitResult, lastResult, running_state, lock>>
            /\ UNCHANGED <<lastLogs, lastStreamErr, lastHealth>>
    /\ UNCHANGED <<params, createVars, lastOp, slotAtCall, inspected, startedOk, blocked>>
    /\ UNCHANGED auxVars

\* container.logs().await? returns after d ticks, then regex.is_match and the
\* deadline check
logs_returns(stream, d) ==
    /\ pc = "wait_logs"
    /\ ~blocked
    /\ now + d <= MaxClock
    /\ lastRead' = None
    /\ now' = now + d
    /\ LET r == logs(stream)
       IN  IF IsErr(r)
           THEN WaitFails(r) /\ UNCHANGED <<lastLogs, lastStreamErr>>
           ELSE /\ lastLogs' = Some(r[2])
                /\ lastStreamErr' = HasReadError(stream)
                /\ WaitContinue(LoopStep(LogReady(params.wait_strategy_on_startup.regex, r[2]),
                                         timeout_instant, now'))
    /\ UNCHANGED <<params, createVars, timeout_instant, pollLate, lastHealth, lastOp,
                   slotAtCall, inspected, startedOk, blocked>>
    /\ UNCHANGED auxVars

\* what inner_container.inspect() can answer to health_state
HealthAnswers == { OkWith(st) : st \in HealthInspects } \cup { Err(e) : e \in RuntimeErrors }

\* container.health_state().await? returns after d ticks, then the comparison
\* and the deadline check
health_state_returns(r, d) ==
    /\ pc = "wait_health"
    /\ ~blocked
    /\ now + d <= MaxClock
    /\ lastRead' = None
    /\ now' = now + d
    /\ lastHealth' = Some(IF IsErr(r) THEN r ELSE OkWith(health_state(r[2])))
    /\ IF IsErr(r)
       THEN WaitFails(r)
       ELSE WaitContinue(LoopStep(HealthReady(health_state(r[2])), timeout_instant, now'))
    /\ UNCHANGED <<params, createVars, timeout_instant, pollLate, lastLogs, lastStreamErr,
                   lastOp, slotAtCall, inspected, startedOk, blocked>>
    /\ UNCHANGED auxVars

\* tokio::time::sleep(100 ms).await returns after d ticks; the next iteration
\* issues its query
sleep_returns(d) ==
    /\ pc = "wait_sleep"
    /\ ~blocked
    /\ now + d <= MaxClock
    /\ lastRead' = None
    /\ now' = now + d
    /\ IssuePoll(PollQuery(params.wait_strategy_on_startup), timeout_instant, now')
    /\ UNCHANGED <<params, createVars, timeout_instant, lastLogs, lastStreamErr, lastHealth,
                   waitResult, handleVars, blocked>>
    /\ UNCHANGED auxVars

\* inner_container.inspect().await? returns while the write guard is held; the
\* guard is dropped when start_and_wait returns, with or without a new state
inspect_returns(r) ==
    /\ pc = "inspect"
    /\ ~blocked
    /\ lastRead' = None
    /\ lock' = "free"
    /\ IF IsErr(r)
       THEN /\ StartFails(r)
            /\ UNCHANGED <<inspected, startedOk>>
       ELSE /\ running_state' = PublishedState(r[2])
            /\ inspected' = Some(r[2])
            /\ startedOk' = TRUE
            /\ lastResult' = Ok
            /\ pc' = "idle"
            /\ UNCHANGED rt_started
    /\ UNCHANGED <<params, createVars, waitVars, lastOp, slotAtCall, blocked>>
    /\ UNCHANGED auxVars

\* inner_container.stop(..).await? returns, in stop and in kill; on Ok the
\* write lock is taken, the slot cleared and the guard dropped
inner_stop_returns(r) ==
    /\ pc = "stop_rt"
    /\ ~blocked
    /\ lastRead' = None
    /\ pc' = "idle"
    /\ lastResult' = r
    /\ IF IsErr(r)
       THEN /\ running_state' = StateAfterFailedStop(running_state)
            /\ UNCHANGED <<inspected, startedOk, rt_started>>
       ELSE /\ running_state' = ClearedState
            /\ inspected' = None
            /\ startedOk' = FALSE
            /\ rt_started' = FALSE
    /\ UNCHANGED <<params, createVars, waitVars, lock, lastOp, slotAtCall, blocked>>
    /\ UNCHANGED auxVars

\* GenericContainer::get_host_port, called by the caller between the steps of
\* its lifecycle task: RwLock::read parks the thread while the write guard of
\* start_and_wait is alive on the same thread
GetHostPort(container_port_spec) ==
    /\ pc \in HandlePcs
    /\ ~blocked
    /\ IF lock = "write"
       THEN blocked' = TRUE /\ UNCHANGED lastRead
       ELSE /\ lastRead' = Some([spec |-> container_port_spec,
                                port |-> get_host_port(running_state, container_port_spec)])
            /\ UNCHANGED blocked
    /\ UNCHANGED <<pc, params, createVars, waitVars, handleVars>>
    /\ UNCHANGED auxVars

-----------------------------------------------------------------------------

StartAnswers == { Ok } \cup { Err(e) : e \in RuntimeErrors }
ExistsAnswers == { OkWith(b) : b \in BOOLEAN } \cup { Err(e) : e \in RuntimeErrors }
InspectAnswers == { OkWith(i) : i \in InspectResponses } \cup { Err(e) : e \in RuntimeErrors }

Next ==
    \/ \E re \in Regexes : wait_for_log_on_startup(re)
    \/ use_state_healthy
    \/ \E d \in Timeouts : with_start_timeout(d)
    \/ create
    \/ \E st \in ProgressStreams : build_returns(st)
    \/ \E r \in ExistsAnswers : image_exists_locally_returns(r)
    \/ \E st \in ProgressStreams : pull_returns(st)
    \/ \E r \in StartAnswers : docker_create_returns(r)
    \/ start
    \/ stop
    \/ kill
    \/ \E r \in StartAnswers : inner_start_returns(r)
    \/ \E st \in LogStreams, d \in 0..MaxQueryTicks : logs_returns(st, d)
    \/ \E r \in HealthAnswers, d \in 0..MaxQueryTicks : health_state_returns(r, d)
    \/ \E d \in SleepInterval..(SleepInterval + MaxOversleep) : sleep_returns(d)
    \/ \E r \in InspectAnswers : inspect_returns(r)
    \/ \E r \in StartAnswers : inner_stop_returns(r)
    \/ \E p \in PortSpecs : GetHostPort(p)

Spec == Init /\ [][Next]_vars

-----------------------------------------------------------------------------
(* Properties *)

Strategy == params.wait_strategy_on_startup
HandleExists == pc \in HandlePcs
Returned(op) == pc = "idle" /\ lastOp = op /\ lastResult # NoResult
NoMapping == \A p \in PortSpecs : get_host_port(running_state, p) = None

\* the host ports an inspect response reports for a port spec on 0.0.0.0
ReportedOnWildcard(inspect, p) ==
    LET ns == inspect.network_settings
        map == IF ns = None \/ Unwrap(ns).ports = None THEN EmptyPorts
               ELSE Unwrap(Unwrap(ns).ports)
        bindings == IF p \in DOMAIN map /\ map[p] # None THEN Unwrap(map[p]) ELSE <<>>
    IN  { Unwrap(ParseU16(Unwrap(bindings[i].host_port))) :
            i \in { j \in 1..Len(bindings) :
                      /\ bindings[j].host_ip = Some(Wildcard)
                      /\ bindings[j].host_port # None } }

\* C1: when the latest lifecycle call is a start() that returned Ok, the slot
\* holds the state of the inspect response of that start, and get_host_port(p)
\* gives a host port that response reports for p on 0.0.0.0 (no mapping exactly
\* when it reports none); a get_host_port made then returns that value.
C1_StartPublishesPorts ==
    (Returned("start") /\ lastResult = Ok) =>
        /\ IsSome(inspected)
        /\ IsSome(running_state)
        /\ \A p \in PortSpecs :
             LET got == get_host_port(running_state, p)
                 reported == ReportedOnWildcard(Unwrap(inspected), p)
             IN  /\ (got = None) <=> (reported = {})
                 /\ IsSome(got) => Unwrap(got) \in reported
                 /\ (IsSome(lastRead) /\ Unwrap(lastRead).spec = p)
                        => Unwrap(lastRead).port = got

C1_Witness ==
    /\ Returned("start")
    /\ lastResult = Ok
    /\ lastRead = Some([spec |-> "5432/tcp", port |-> Some(55000)])

\* C2: on a handle on which no start() has succeeded since its creation or
\* since the last successful stop() or kill(), get_host_port gives no mapping
\* for every port spec, and a get_host_port made then returns no mapping.
C2_NoMappingUnlessStarted ==
    (HandleExists /\ ~startedOk) =>
        /\ NoMapping
        /\ IsSome(lastRead) => Unwrap(lastRead).port = None

C2_Witness ==
    /\ Returned("kill")
    /\ lastResult = Ok
    /\ IsSome(slotAtCall)
    /\ lastRead = Some([spec |-> "5432/tcp", port |-> None])

\* C3 (as claimed): after any stop() or kill() call, whatever its result, the
\* RunningState slot is absent.
C3_StopAlwaysClears ==
    (Returned("stop") \/ Returned("kill")) => running_state = None

\* C4 (as claimed): after any failed start(), in any state the handle was in,
\* get_host_port gives no mapping for every port.
C4_FailedStartLeavesUnset ==
    (Returned("start") /\ IsErr(lastResult)) => NoMapping

\* C4 (amended): a failed start() leaves the slot as it was when the call
\* began; so after a failed start() on a handle whose slot was absent,
\* get_host_port gives no mapping for every port.
C4_FailedStartKeepsSlot ==
    (Returned("start") /\ IsErr(lastResult)) =>
        /\ running_state = slotAtCall
        /\ slotAtCall = None => NoMapping
        /\ (slotAtCall = None /\ IsSome(lastRead)) => Unwrap(lastRead).port = None

C4_Witness ==
    /\ Returned("start")
    /\ lastResult = Err(TimeoutError)
    /\ slotAtCall = None
    /\ lastRead = Some([spec |-> "5432/tcp", port |-> None])

\* the health status of the last health poll is present and non-empty
HealthReported ==
    /\ IsSome(lastHealth)
    /\ IsOk(Unwrap(lastHealth))
    /\ IsSome(Unwrap(lastHealth)[2])
    /\ Unwrap(Unwrap(lastHealth)[2]) # ""

HealthQueryFailed == IsSome(lastHealth) /\ IsErr(Unwrap(lastHealth))

\* C5 (as claimed): with StateHealthy, once a health poll has answered, the
\* wait has returned success exactly when the reported status is present and
\* non-empty.
C5_ReadyOnNonEmptyHealth ==
    (Strategy = StateHealthy /\ IsSome(lastHealth) /\ ~HealthQueryFailed) =>
        ((waitResult = Ok) <=> HealthReported)

LastLogsMatch ==
    IsSome(lastLogs) /\ is_match(Strategy.regex, Unwrap(lastLogs))

\* C6 (as claimed): with LogMessageRegExp the wait returns success only from a
\* poll made within the timeout window.
C6_SuccessOnlyWithinWindow ==
    (Strategy.kind = "LogMessageRegExp" /\ waitResult = Ok) => ~pollLate

\* C6 (amended): with LogMessageRegExp the wait returns success exactly on the
\* first poll whose fetched text matches, whether that poll was issued before
\* or after the deadline; it returns the timeout error exactly when the text
\* of a poll did not match and the clock read after it is past the deadline;
\* and it sleeps only after a poll that did not match, the deadline not passed.
C6_LogPatternOutcome ==
    Strategy.kind = "LogMessageRegExp" =>
        /\ waitResult = Ok => LastLogsMatch
        /\ LastLogsMatch => waitResult = Ok
        /\ waitResult = Err(TimeoutError) =>
              IsSome(lastLogs) /\ ~LastLogsMatch /\ timeout_instant < now
        /\ (IsSome(lastLogs) /\ ~LastLogsMatch /\ waitResult = NoResult /\ pc = "wait_sleep")
              => ~(timeout_instant < now)
        /\ (IsSome(lastLogs) /\ ~LastLogsMatch /\ pc = "idle")
              => waitResult = Err(TimeoutError)

C6_Witness ==
    /\ Strategy.kind = "LogMessageRegExp"
    /\ waitResult = Ok
    /\ pollLate
    /\ LastLogsMatch

\* C7 (as claimed): a read error of the log fetch of a poll makes the wait,
\* and so start(), return that error at once.
C7_LogErrorEndsWait ==
    (Strategy.kind = "LogMessageRegExp" /\ lastStreamErr) =>
        /\ pc = "idle"
        /\ IsErr(lastResult)
        /\ lastResult[2] \in RuntimeErrors

\* C7 (amended): an error of the health inspection of a poll makes the wait,
\* and so start(), return that error at once, with no further poll; read
\* errors of the log stream are dropped by logs(), so with LogMessageRegExp the
\* wait never returns a runtime error and goes on with the text of the chunks
\* that were read.
C7_QueryErrors ==
    /\ HealthQueryFailed =>
          /\ pc = "idle"
          /\ waitResult = Unwrap(lastHealth)
          /\ lastResult = Unwrap(lastHealth)
          /\ lastResult[2] \in RuntimeErrors
    /\ Strategy.kind = "LogMessageRegExp" =>
          \A e \in RuntimeErrors : waitResult # Err(e)

C7_Witness ==
    /\ Strategy.kind = "LogMessageRegExp"
    /\ lastStreamErr
    /\ pc = "wait_sleep"

\* C8: a new builder has the None strategy, and with the None strategy the
\* wait returns Ok at once: no query is awaited, no sleep is made, the clock
\* has not moved and the wait never returns an error, also with a zero timeout.
C8_NoneIsImmediate ==
    /\ Init => Strategy = StrategyNone
    /\ Strategy = StrategyNone =>
          /\ pc \notin { "wait_logs", "wait_health", "wait_sleep" }
          /\ ~IsErr(waitResult)
          /\ lastLogs = None /\ lastHealth = None
          /\ now = 0
          /\ pc = "inspect" => waitResult = Ok
          /\ (Returned("start") /\ lastResult = Ok) => waitResult = Ok

C8_Witness ==
    /\ Strategy = StrategyNone
    /\ params.start_timeout = 0
    /\ pc = "inspect"
    /\ waitResult = Ok

\* the wait ended on the deadline check, not on an error of its query
WaitTimedOut == IsErr(waitResult) /\ ~HealthQueryFailed

CallNames == [i \in 1..Len(calls) |-> calls[i].call]
Issued(call) == \E i \in 1..Len(calls) : calls[i].call = call
AnswerOf(call) == calls[CHOOSE i \in 1..Len(calls) : calls[i].call = call].answer

\* C10: create() builds an image that has build instructions, with no
\* local-presence check and no pull; otherwise it checks the local presence
\* and pulls exactly when the check says absent; createContainer is issued last
\* and only after every earlier call answered Ok; an error answer ends create
\* with that error, no call after it and no handle.
C10_CreateResolvesImage ==
    /\ (calls # <<>> /\ IsSome(params.build_instructions)) =>
          /\ calls[1].call = "build"
          /\ ~Issued("imageExistsLocally") /\ ~Issued("pull")
    /\ (calls # <<>> /\ params.build_instructions = None) =>
          /\ calls[1].call = "imageExistsLocally"
          /\ ~Issued("build")
          /\ Issued("pull") <=> AnswerOf("imageExistsLocally") = OkWith(FALSE)
    /\ \A i \in 1..Len(calls) :
          /\ calls[i].call = "createContainer" =>
                /\ i = Len(calls)
                /\ \A j \in 1..(i - 1) : IsOk(calls[j].answer)
          /\ IsErr(calls[i].answer) =>
                /\ i = Len(calls)
                /\ pc = "create_failed"
                /\ createResult = calls[i].answer
    /\ HandleExists <=> createResult = Ok
    /\ HandleExists => (Issued("createContainer") /\ IsOk(AnswerOf("createContainer")))
    /\ pc = "create_failed" <=> IsErr(createResult)

C10_Witness ==
    /\ pc = "idle"
    /\ CallNames = << "imageExistsLocally", "pull", "createContainer" >>

-----------------------------------------------------------------------------
(* The port mapping resolver on its own: RunningState::from applied to one
   inspect response drawn from a bounded set *)

\* longest Vec<PortBinding> of a port spec
MaxBindings == 2

\* every PortBinding over the two addresses and two ports, fields present or not
Bindings ==
    { Binding(ip, port) : ip \in { None, Some(Wildcard), Some(Loopback) },
                          port \in { None, Some(Port55000), Some(Port55001) } }

\* Option<Vec<PortBinding>> of the first port spec: every Vec up to MaxBindings
HostPortsOfFirst == { None } \cup { Some(bs) : bs \in SeqsUpTo(Bindings, MaxBindings) }

\* Option<Vec<PortBinding>> of the second port spec
HostPortsOfSecond ==
    { None,
      Some(<<>>),
      Some(<< Binding(Some(Loopback), Some(Port55001)) >>),
      Some(<< Binding(Some(Wildcard), Some(Port55001)) >>),
      Some(<< Binding(Some(Wildcard), None) >>) }

\* Option<NetworkSettings> with ports absent, empty, or holding one or both specs
ResolverNetworkSettings ==
    { None, Some([ports |-> None]), Some([ports |-> Some(EmptyPorts)]) }
    \cup { Some([ports |-> Some([p \in { "5432/tcp" } |-> a])]) : a \in HostPortsOfFirst }
    \cup { Some([ports |-> Some([p \in PortSpecs |-> IF p = "5432/tcp" THEN a ELSE b])]) :
             a \in HostPortsOfFirst, b \in HostPortsOfSecond }

ResolverInputs ==
    { [id |-> Some("c0ffee"), name |-> Some("/fixture"), network_settings |-> ns] :
        ns \in ResolverNetworkSettings }

PortsInit ==
    /\ pc = "resolver"
    /\ params = new(None)
    /\ Quiescent
    /\ envCalls = <<>>
    /\ fnArg \in { Some(i) : i \in ResolverInputs }
    /\ fnRet = NoResult

\* RunningState::from(container_details)
from_inspect ==
    /\ pc = "resolver"
    /\ fnRet = NoResult
    /\ fnRet' = OkWith(RunningStateFrom(Unwrap(fnArg)))
    /\ UNCHANGED <<pc, params, createVars, waitVars, handleVars, lastRead, blocked,
                   envCalls, fnArg>>

PortsNext == from_inspect

PortsSpec == PortsInit /\ [][PortsNext]_vars

\* the bindings an inspect response lists for a port spec
ListedBindings(inspect, p) ==
    LET ns == inspect.network_settings
        map == IF ns = None \/ Unwrap(ns).ports = None THEN EmptyPorts
               ELSE Unwrap(Unwrap(ns).ports)
    IN  IF p \in DOMAIN map /\ map[p] # None THEN Unwrap(map[p]) ELSE <<>>

\* C11: the resolved mapping has an entry for a port spec exactly when the
\* response lists for it a binding with host IP 0.0.0.0 and a host port; the
\* entry is one host port, that of such a binding; a port spec bound only to
\* another address or with missing fields has no entry; absent network
\* settings or absent port data give the empty mapping and never an error.
C11_ResolverKeepsWildcardOnly ==
    (pc = "resolver" /\ fnRet # NoResult) =>
        LET inspect == Unwrap(fnArg)
            ns == inspect.network_settings
        IN  /\ IsOk(fnRet)
            /\ DOMAIN fnRet[2].ports \subseteq PortSpecs
            /\ \A p \in PortSpecs :
                 /\ p \in DOMAIN fnRet[2].ports <=> ReportedOnWildcard(inspect, p) # {}
                 /\ p \in DOMAIN fnRet[2].ports =>
                      fnRet[2].ports[p] \in ReportedOnWildcard(inspect, p)
                 /\ (\A i \in 1..Len(ListedBindings(inspect, p)) :
                        \/ ListedBindings(inspect, p)[i].host_ip # Some(Wildcard)
                        \/ ListedBindings(inspect, p)[i].host_port = None)
                      => p \notin DOMAIN fnRet[2].ports
            /\ (ns = None \/ Unwrap(ns).ports = None) => fnRet[2].ports = EmptyPorts

\* the resolver has run on a response binding 5432/tcp to {0.0.0.0, 55000} and
\* 80/tcp only to {127.0.0.1, 55001}, and the mapping holds only the first
C11_Witness ==
    /\ pc = "resolver"
    /\ fnRet # NoResult
    /\ ListedBindings(Unwrap(fnArg), "5432/tcp") = << Binding(Some(Wildcard), Some(Port55000)) >>
    /\ ListedBindings(Unwrap(fnArg), "80/tcp") = << Binding(Some(Loopback), Some(Port55001)) >>
    /\ DOMAIN fnRet[2].ports = { "5432/tcp" }
    /\ fnRet[2].ports["5432/tcp"] = 55000

-----------------------------------------------------------------------------
(* DockerImage::from_str. A string is the sequence of its characters. *)

\* the quantifier bounds of the two patterns: {32,} and {0,127}
MinHashLen == 32
MaxTagTail == 127

Digits == { "0", "1", "2", "3", "4", "5", "6", "7", "8", "9" }
HexLetters == { "a", "b", "c", "d", "e", "f", "A", "B", "C", "D", "E", "F" }
Letters ==
    { "a", "b", "c", "d", "e", "f", "g", "h", "i", "j", "k", "l", "m",
      "n", "o", "p", "q", "r", "s", "t", "u", "v", "w", "x", "y", "z",
      "A", "B", "C", "D", "E", "F", "G", "H", "I", "J", "K", "L", "M",
      "N", "O", "P", "Q", "R", "S", "T", "U", "V", "W", "X", "Y", "Z" }

\* [0-9a-fA-F]
IsHexChar(c) == c \in Digits \cup HexLetters
\* \w on the characters the inputs are made of
IsWordChar(c) == c \in Letters \cup Digits \cup { "_" }
\* [\w.\-]
IsTagChar(c) == IsWordChar(c) \/ c \in { ".", "-" }

\* the byte offsets at which pat occurs in s
Occurrences(s, pat) ==
    { i \in 1..(Len(s) - Len(pat) + 1) : SubSeq(s, i, i + Len(pat) - 1) = pat }

Smallest(S) == CHOOSE i \in S : \A j \in S : i <= j
Largest(S) == CHOOSE i \in S : \A j \in S : j <= i

\* str::contains
contains(s, pat) == Occurrences(s, pat) # {}

\* str::starts_with
starts_with(s, pat) == Len(pat) <= Len(s) /\ SubSeq(s, 1, Len(pat)) = pat

SplitAt(s, pat, i) == << SubSeq(s, 1, i - 1), SubSeq(s, i + Len(pat), Len(s)) >>

\* str::rsplit_once: the split at the last occurrence
rsplit_once(s, pat) ==
    IF contains(s, pat) THEN Some(SplitAt(s, pat, Largest(Occurrences(s, pat)))) ELSE None

\* str::split_once: the split at the first occurrence
split_once(s, pat) ==
    IF contains(s, pat) THEN Some(SplitAt(s, pat, Smallest(Occurrences(s, pat)))) ELSE None

\* Regex ^[0-9a-fA-F]{32,}$
re_hash_is_match(hash) ==
    /\ Len(hash) >= MinHashLen
    /\ \A i \in 1..Len(hash) : IsHexChar(hash[i])

\* Regex ^[\w][\w.\-]{0,127}$
re_tag_is_match(tag) ==
    /\ Len(tag) >= 1
    /\ Len(tag) <= 1 + MaxTagTail
    /\ IsWordChar(tag[1])
    /\ \A i \in 2..Len(tag) : IsTagChar(tag[i])

\* the literal parts of the three format! messages
InvalidRepositoryName ==
    << "i", "n", "v", "a", "l", "i", "d", " ", "r", "e", "p", "o", "s", "i", "t", "o", "r", "y", " ", "n", "a", "m", "e", ":", " " >>
InvalidSha256 ==
    << "i", "n", "v", "a", "l", "i", "d", " ", "s", "h", "a", "2", "5", "6", " ", "h", "a", "s", "h", " ", "v", "e", "r", "s", "i", "o", "n", ":", " " >>
InvalidTag ==
    << "i", "n", "v", "a", "l", "i", "d", " ", "t", "a", "g", " ", "v", "e", "r", "s", "i", "o", "n", ":", " " >>

Slash == << "/" >>
Colon == << ":" >>
At == << "@" >>
Dot == << "." >>
localhost == << "l", "o", "c", "a", "l", "h", "o", "s", "t" >>
AtSha256 == << "@", "s", "h", "a", "2", "5", "6", ":" >>

\* enum Version
VersionAny == << "Any" >>
VersionSha256(hash) == << "Sha256", hash >>
VersionTag(tag) == << "Tag", tag >>

\* Version::from_sha256
from_sha256(hash) ==
    IF re_hash_is_match(hash) THEN OkWith(VersionSha256(hash))
    ELSE Err(InvalidSha256 \o hash)

\* a from_tag that accepts every tag
from_tag_Unchecked(tag) == OkWith(VersionTag(tag))

\* Version::from_tag
from_tag(tag) ==
    IF re_tag_is_match(tag) THEN OkWith(VersionTag(tag))
    ELSE Err(InvalidTag \o tag)

\* the left segment names a registry
IsRegistry(registry) ==
    \/ contains(registry, Dot)
    \/ contains(registry, Colon)
    \/ contains(registry, localhost)

\* the first match of from_str: << registry, repository_and_version >>
SplitRegistry(full_image_name) ==
    LET parts == split_once(full_image_name, Slash)
    IN  IF parts # None /\ IsRegistry(Unwrap(parts)[1])
        THEN << Some(Unwrap(parts)[1]), Unwrap(parts)[2] >>
        ELSE << None, full_image_name >>

\* a second match of from_str that cuts the tag at the last ':'
SplitVersion_AtLastColon(repository_and_version) ==
    LET by_hash == split_once(repository_and_version, AtSha256)
        by_tag == rsplit_once(repository_and_version, Colon)
    IN  IF by_hash # None
        THEN << Unwrap(by_hash)[1], from_sha256(Unwrap(by_hash)[2]) >>
        ELSE IF by_tag # None
        THEN << Unwrap(by_tag)[1], from_tag(Unwrap(by_tag)[2]) >>
        ELSE << repository_and_version, OkWith(VersionAny) >>

\* the second match of from_str: << repository, Result<Version, String> >>
SplitVersion(repository_and_version) ==
    LET by_hash == split_once(repository_and_version, AtSha256)
        by_tag == split_once(repository_and_version, Colon)
    IN  IF by_hash # None
        THEN << Unwrap(by_hash)[1], from_sha256(Unwrap(by_hash)[2]) >>
        ELSE IF by_tag # None
        THEN << Unwrap(by_tag)[1], from_tag(Unwrap(by_tag)[2]) >>
        ELSE << repository_and_version, OkWith(VersionAny) >>

\* impl FromStr for DockerImage
from_str(full_image_name) ==
    LET first == SplitRegistry(full_image_name)
        second == SplitVersion(first[2])
        repository == second[1]
    IN  IF IsErr(second[2]) THEN second[2]
        ELSE IF contains(repository, At) \/ contains(repository, Colon)
        THEN Err(InvalidRepositoryName \o repository)
        ELSE OkWith([raw_name |-> full_image_name,
                     registry |-> first[1],
                     repository |-> repository,
                     version |-> second[2][2],
                     build_instructions |-> None])

\* longest image name of the exhaustive part of the inputs
MaxNameLen == 3

\* a hash of exactly n hex characters and a tag of exactly n characters
HashOfLen(n) == [i \in 1..n |-> IF i % 2 = 0 THEN "0" ELSE "f"]
TagOfLen(n) == [i \in 1..n |-> IF i = 1 THEN "v" ELSE "-"]

RegistryParts ==
    { <<>>,
      << "r", "e", "p", "o", "/" >>,
      << "r", "e", "g", "i", "s", "t", "r", "y", ".", "f", "o", "o", ".", "c", "o", "m", "/" >>,
      << "r", "e", "g", "i", "s", "t", "r", "y", ".", "f", "o", "o", ".", "c", "o", "m", ":", "1", "2", "3", "4", "/" >>,
      << "l", "o", "c", "a", "l", "h", "o", "s", "t", "/" >>,
      << "l", "o", "c", "a", "l", "h", "o", "s", "t", ":", "5", "0", "0", "0", "/" >>,
      << "m", "y", "l", "o", "c", "a", "l", "h", "o", "s", "t", "/" >>,
      << "1", ".", "2", ".", "3", ".", "4", "/" >> }

RepositoryParts ==
    { << "r", "e", "p", "o" >>,
      << "r", "u", "s", "t" >>,
      << "m", "y", "-", "n", "a", "m", "e" >>,
      << "r", "e", "p", "o", "_", "h", "e", "r", "e", "/", "m", "y", "-", "n", "a", "m", "e" >>,
      << "r", "u", "s", "t", "@", "i", "n", "v", "a", "l", "i", "d" >>,
      <<  >> }

VersionParts ==
    { <<>>,
      << ":", "l", "a", "t", "e", "s", "t" >>,
      << ":", "1", ".", "0" >>,
      << ":", "r", "u", "s", "t", ":", "i", "n", "v", "a", "l", "i", "d" >>,
      << "@", "i", "n", "v", "a", "l", "i", "d" >>,
      << ":", ".", "b", "a", "d" >>,
      << ":" >>,
      AtSha256 \o HashOfLen(MinHashLen),
      AtSha256 \o HashOfLen(MinHashLen - 1),
      AtSha256 \o TagOfLen(MinHashLen),
      Colon \o TagOfLen(1 + MaxTagTail),
      Colon \o TagOfLen(2 + MaxTagTail) }

\* image names: every string of up to MaxNameLen of the structural characters,
\* and the names made of a registry part, a repository part and a version part
ImageNames ==
    SeqsUpTo({ "a", ":", "@", "/", "." }, MaxNameLen)
    \cup { r \o n \o v : r \in RegistryParts, n \in RepositoryParts, v \in VersionParts }

ParseInit ==
    /\ pc = "parser"
    /\ params = new(None)
    /\ Quiescent
    /\ envCalls = <<>>
    /\ fnArg \in { Some(n) : n \in ImageNames }
    /\ fnRet = NoResult

\* full_image_name.parse::<DockerImage>()
parse ==
    /\ pc = "parser"
    /\ fnRet = NoResult
    /\ fnRet' = from_str(Unwrap(fnArg))
    /\ UNCHANGED <<pc, params, createVars, waitVars, handleVars, lastRead, blocked,
                   envCalls, fnArg>>

ParseNext == parse

ParseSpec == ParseInit /\ [][ParseNext]_vars

Parsed == pc = "parser" /\ fnRet # NoResult

NoAtNoColon(s) == \A i \in 1..Len(s) : s[i] \notin { "@", ":" }

\* the text a reference stands for: registry, '/', repository and version put back
Reassembled(image) ==
    (IF image.registry = None THEN <<>> ELSE Unwrap(image.registry) \o Slash)
    \o image.repository
    \o (CASE image.version[1] = "Any" -> <<>>
          [] image.version[1] = "Tag" -> Colon \o image.version[2]
          [] image.version[1] = "Sha256" -> AtSha256 \o image.version[2])

rust_at_invalid == << "r", "u", "s", "t", "@", "i", "n", "v", "a", "l", "i", "d" >>
repo_rust_invalid == << "r", "e", "p", "o", ":", "r", "u", "s", "t", ":", "i", "n", "v", "a", "l", "i", "d" >>

\* C12: parse either fails or returns a reference whose repository has neither
\* '@' nor ':' and whose version is Any, a Tag matching the tag pattern or a
\* Sha256 matching the digest pattern; nothing of the input is dropped or
\* replaced by a default (the parts of the reference put back together are the
\* input); "rust@invalid" fails with the invalid-repository message and
\* "repo:rust:invalid" with the invalid-tag-version message.
C12_ParseInvariant ==
    Parsed =>
        /\ IsOk(fnRet) \/ IsErr(fnRet)
        /\ IsOk(fnRet) =>
             /\ NoAtNoColon(fnRet[2].repository)
             /\ \/ fnRet[2].version = VersionAny
                \/ /\ fnRet[2].version[1] = "Tag"
                   /\ re_tag_is_match(fnRet[2].version[2])
                \/ /\ fnRet[2].version[1] = "Sha256"
                   /\ re_hash_is_match(fnRet[2].version[2])
             /\ Reassembled(fnRet[2]) = Unwrap(fnArg)
             /\ fnRet[2].raw_name = Unwrap(fnArg)
        /\ fnArg = Some(rust_at_invalid) =>
             IsErr(fnRet) /\ starts_with(fnRet[2], InvalidRepositoryName)
        /\ fnArg = Some(repo_rust_invalid) =>
             IsErr(fnRet) /\ (starts_with(fnRet[2], InvalidTag) \/ starts_with(fnRet[2], InvalidSha256))

\* "repo:rust:invalid" has been parsed and failed on its version
C12_Witness ==
    /\ Parsed
    /\ fnArg = Some(repo_rust_invalid)
    /\ IsErr(fnRet)
    /\ fnRet[2] = InvalidTag \o << "r", "u", "s", "t", ":", "i", "n", "v", "a", "l", "i", "d" >>

\* the repository-and-version segment of the parsed name
Segment == SplitRegistry(Unwrap(fnArg))[2]

\* the segment has no "@sha256:" and has a ':'
TaggedSegment == ~contains(Segment, AtSha256) /\ contains(Segment, Colon)

\* the result of a parse that cuts the segment at its ':' at offset i: the
\* candidate tag is checked first, then the repository
CutAtColon(i) ==
    LET repository == SubSeq(Segment, 1, i - 1)
        tag == SubSeq(Segment, i + 1, Len(Segment))
    IN  IF ~re_tag_is_match(tag) THEN fnRet = Err(InvalidTag \o tag)
        ELSE IF ~NoAtNoColon(repository) THEN fnRet = Err(InvalidRepositoryName \o repository)
        ELSE /\ IsOk(fnRet)
             /\ fnRet[2].repository = repository
             /\ fnRet[2].version = VersionTag(tag)

\* C13 as stated: a segment without "@sha256:" that contains ':' is cut at its
\* last ':', the text after it being the candidate tag and the text before it
\* the repository.
C13_SplitsAtLastColon ==
    (Parsed /\ TaggedSegment) => CutAtColon(Largest(Occurrences(Segment, Colon)))

\* C13 amended: a segment without "@sha256:" that contains ':' is cut at its
\* first ':': the candidate tag is everything after the first ':' and is
\* checked against the tag pattern, the repository is the text before it and
\* is checked against the no-'@' rule.
C13_SplitsAtFirstColon ==
    (Parsed /\ TaggedSegment) => CutAtColon(Smallest(Occurrences(Segment, Colon)))

\* a segment with two ':' has been parsed: the tag candidate ran from the
\* first ':' to the end and was rejected
C13_Witness ==
    /\ Parsed
    /\ TaggedSegment
    /\ Cardinality(Occurrences(Segment, Colon)) = 2
    /\ NoAtNoColon(SubSeq(Segment, Largest(Occurrences(Segment, Colon)) + 1, Len(Segment)))
    /\ fnRet = Err(InvalidTag \o SubSeq(Segment, Smallest(Occurrences(Segment, Colon)) + 1,
                                         Len(Segment)))

\* the left segment of a name with a '/', <<>> for a name without
LeftSegment ==
    LET name == Unwrap(fnArg)
    IN  IF contains(name, Slash) THEN SubSeq(name, 1, Smallest(Occurrences(name, Slash)) - 1)
        ELSE <<>>

\* C14 as stated: a parsed reference has a registry exactly when the name has a
\* '/' and the text before the first '/' contains '.', contains ':', or starts
\* with "localhost" (which covers equality); the registry is then that text.
C14_RegistryRule ==
    (Parsed /\ IsOk(fnRet)) =>
        IF /\ contains(Unwrap(fnArg), Slash)
           /\ \/ contains(LeftSegment, Dot)
              \/ contains(LeftSegment, Colon)
              \/ starts_with(LeftSegment, localhost)
        THEN fnRet[2].registry = Some(LeftSegment)
        ELSE fnRet[2].registry = None

-----------------------------------------------------------------------------
(* The builder's environment variables *)

\* longest chain of add_env calls
MaxEnvCalls == 3

EnvKeys == { "PGUSER", "PGPASSWORD" }
EnvValues == { "admin", "guest" }

\* GenericContainerBuilder::add_env
add_env(key, value) ==
    /\ pc = "builder"
    /\ Len(envCalls) < MaxEnvCalls
    /\ params' = [params EXCEPT !.environment_variables = insert(@, key, value)]
    /\ envCalls' = Append(envCalls, << key, value >>)
    /\ UNCHANGED <<pc, createVars, waitVars, handleVars, lastRead, blocked, fnArg, fnRet>>

BuilderNext ==
    \/ \E k \in EnvKeys, v \in EnvValues : add_env(k, v)
    \/ \E re \in Regexes : wait_for_log_on_startup(re)
    \/ use_state_healthy
    \/ \E d \in Timeouts : with_start_timeout(d)

BuilderSpec == Init /\ [][BuilderNext]_vars

\* the positions of the add_env calls made for a key
CallsFor(key) == { i \in 1..Len(envCalls) : envCalls[i][1] = key }

\* C15: after any chain of add_env calls the builder holds an entry for exactly
\* the keys that were given, and the value of each is the one given by the last
\* add_env for that key, whatever was added for other keys before or after.
C15_EnvIsAMap ==
    pc = "builder" =>
        /\ DOMAIN params.environment_variables = { k \in EnvKeys : CallsFor(k) # {} }
        /\ \A k \in DOMAIN params.environment_variables :
             params.environment_variables[k] = envCalls[Largest(CallsFor(k))][2]

\* add_env was called twice for one key with different values, and once for
\* the other key in between
C15_Witness ==
    /\ pc = "builder"
    /\ Len(envCalls) = 3
    /\ envCalls[1] = << "PGUSER", "admin" >>
    /\ envCalls[2][1] = "PGPASSWORD"
    /\ envCalls[3] = << "PGUSER", "guest" >>
    /\ params.environment_variables["PGUSER"] = "guest"
    /\ params.environment_variables["PGPASSWORD"] = envCalls[2][2]

-----------------------------------------------------------------------------
(* Locking and the polling loop *)

\* C16 as stated: no runtime call (start, stop, inspect, log fetch, health
\* fetch) is in flight while the calling operation holds the write lock of the
\* RunningState slot.
C16_WriteLockOnlyForPublish == lock = "write" => InFlight = "none"

WaitPcs == { "wait_logs", "wait_health", "wait_sleep" }
PollPcs == { "wait_logs", "wait_health" }

\* the latest poll was answered and the predicate of the strategy failed on it
LastEvaluationFailed ==
    \/ /\ Strategy.kind = "LogMessageRegExp"
       /\ IsSome(lastLogs)
       /\ ~LogReady(Strategy.regex, Unwrap(lastLogs))
    \/ /\ Strategy = StateHealthy
       /\ IsSome(lastHealth)
       /\ IsOk(Unwrap(lastHealth))
       /\ ~HealthReady(Unwrap(lastHealth)[2])

\* the predicate of the strategy was evaluated on the answer of a poll
Evaluated ==
    \/ IsSome(lastLogs)
    \/ IsSome(lastHealth) /\ IsOk(Unwrap(lastHealth))

PollingLoopStates ==
    /\ pc \in WaitPcs => timeout_instant = params.start_timeout
    /\ pc = "wait_sleep" => LastEvaluationFailed /\ ~(timeout_instant < now)
    /\ waitResult = Err(TimeoutError) => LastEvaluationFailed /\ timeout_instant < now
    /\ (Strategy # StrategyNone /\ waitResult \in { Ok, Err(TimeoutError) }) => Evaluated

PollingLoopSteps ==
    /\ (pc \in WaitPcs /\ pc' \in WaitPcs) => timeout_instant' = timeout_instant
    /\ (pc = "wait_sleep" /\ pc' # pc) => pc' \in PollPcs /\ now' >= now + SleepInterval
    /\ (pc \in PollPcs /\ pc' = "wait_sleep") => LastEvaluationFailed' /\ ~(timeout_instant < now')
    /\ (pc \in PollPcs /\ waitResult' = Err(TimeoutError)) =>
          LastEvaluationFailed' /\ timeout_instant < now'
    /\ (pc \in PollPcs /\ LastEvaluationFailed' /\ pc' # pc) =>
          IF timeout_instant < now' THEN waitResult' = Err(TimeoutError)
          ELSE pc' = "wait_sleep"

\* C17: during a wait the deadline is the wait's start time plus the timeout and
\* does not change; a wait with a polling strategy returns success or the
\* timeout error only after it evaluated the predicate, also with a zero
\* timeout; after a failed evaluation it returns the timeout error if the clock
\* is past the deadline and otherwise sleeps at least 100 ms and polls again;
\* so it never goes to sleep with the clock past the deadline and never returns
\* the timeout error without a failed evaluation just before it.
C17_PollingLoop == []PollingLoopStates /\ [][PollingLoopSteps]_vars

\* a wait with a zero timeout evaluated the predicate and then timed out
C17_Witness ==
    /\ params.start_timeout = 0
    /\ Strategy # StrategyNone
    /\ waitResult = Err(TimeoutError)
    /\ Evaluated
    /\ pc = "idle"

-----------------------------------------------------------------------------
(* Termination of the readiness wait *)

\* every runtime query of the wait returns and every sleep ends
QueriesReturn ==
    /\ WF_vars(\E st \in LogStreams, d \in 0..MaxQueryTicks : logs_returns(st, d))
    /\ WF_vars(\E r \in HealthAnswers, d \in 0..MaxQueryTicks : health_state_returns(r, d))
    /\ WF_vars(\E d \in SleepInterval..(SleepInterval + MaxOversleep) : sleep_returns(d))

\* the strategies and timeouts a builder can have been given
WaitParams ==
    { [new(None) EXCEPT !.wait_strategy_on_startup = st, !.start_timeout = d] :
        st \in { StrategyNone, StateHealthy } \cup { LogMessageRegExp(re) : re \in Regexes },
        d \in Timeouts \cup { DefaultTimeout } }

\* create() has just returned the handle of an image that was present locally
LiveInit ==
    /\ pc = "idle"
    /\ params \in WaitParams
    /\ calls = << [call |-> "imageExistsLocally", answer |-> OkWith(TRUE)],
                  [call |-> "createContainer", answer |-> Ok] >>
    /\ createResult = Ok
    /\ running_state = None
    /\ lock = "free"
    /\ now = 0
    /\ timeout_instant = 0
    /\ pollLate = FALSE
    /\ lastLogs = None
    /\ lastStreamErr = FALSE
    /\ lastHealth = None
    /\ waitResult = NoResult
    /\ lastOp = "none"
    /\ lastResult = NoResult
    /\ slotAtCall = None
    /\ inspected = None
    /\ startedOk = FALSE
    /\ rt_started = FALSE
    /\ lastRead = None
    /\ blocked = FALSE
    /\ envCalls = <<>>
    /\ fnArg = None
    /\ fnRet = NoResult

\* start() calls on the handle, each followed to its return, with reads of the
\* port mapping in between
LiveNext ==
    \/ start
    \/ \E r \in StartAnswers : inner_start_returns(r)
    \/ \E st \in LogStreams, d \in 0..MaxQueryTicks : logs_returns(st, d)
    \/ \E r \in HealthAnswers, d \in 0..MaxQueryTicks : health_state_returns(r, d)
    \/ \E d \in SleepInterval..(SleepInterval + MaxOversleep) : sleep_returns(d)
    \/ \E r \in InspectAnswers : inspect_returns(r)
    \/ \E p \in PortSpecs : GetHostPort(p)

LiveSpec == LiveInit /\ [][LiveNext]_vars /\ QueriesReturn

\* the wait is at one of its await points, with a timeout whose deadline and
\* the sleep after it lie within the clock's range
Waiting == pc \in WaitPcs /\ params.start_timeout + SleepInterval <= MaxClock

\* the wait has returned success, the timeout error or a runtime error
WaitReturned ==
    /\ pc \notin WaitPcs
    /\ \/ waitResult = Ok
       \/ waitResult = Err(TimeoutError)
       \/ IsErr(waitResult) /\ waitResult[2] \in RuntimeErrors

\* C18: if every runtime query returns and every sleep ends, a wait with a
\* polling strategy and a finite timeout eventually returns success, the
\* timeout error or a runtime error, whatever the container reports.
C18_WaitTerminates == Waiting ~> WaitReturned

\* a wait that polled, slept past its deadline and polled again has returned
\* the timeout error
C18_Witness ==
    /\ pc = "idle"
    /\ lastOp = "start"
    /\ params.start_timeout = MaxTimeout
    /\ waitResult = Err(TimeoutError)
    /\ now = MaxTimeout + SleepInterval

-----------------------------------------------------------------------------
(* A failed start and the container at the runtime *)

\* the latest call is a start() that returned an error after its runtime start
\* call had succeeded: the wait ran (and failed, or the inspect after it did)
FailedAfterRuntimeStart ==
    /\ Returned("start")
    /\ IsErr(lastResult)
    /\ waitResult # NoResult

\* only a stop() or a kill() takes the container out of the started state
OnlyStopEndsRuntime == (rt_started /\ ~rt_started') => lastOp \in { "stop", "kill" }

\* C19 as stated: start() has no runtime stop call in flight, and after a
\* start() that failed past its runtime start call the container is started at
\* the runtime and the handle's RunningState is absent.
C19_FailedStartLeavesAbsent ==
    /\ lastOp = "start" => InFlight # "stop"
    /\ FailedAfterRuntimeStart => rt_started /\ running_state = None

\* C19 amended: start() has no runtime stop call in flight; after a start() that
\* failed past its runtime start call the container is started at the runtime
\* and the handle's RunningState is what it was when the call began (absent on
\* a handle that was not started, the earlier state after a failed re-start);
\* the container leaves the started state only in a stop() or a kill().
C19_NoCleanupOnFailedStart ==
    /\ [](/\ lastOp = "start" => InFlight # "stop"
          /\ FailedAfterRuntimeStart =>
               /\ rt_started
               /\ running_state = slotAtCall
               /\ slotAtCall = None => NoMapping)
    /\ [][OnlyStopEndsRuntime]_vars

\* a first start() timed out after the runtime had started the container: the
\* container is started, the handle has no RunningState
C19_Witness ==
    /\ FailedAfterRuntimeStart
    /\ lastResult = Err(TimeoutError)
    /\ slotAtCall = None
    /\ running_state = None
    /\ rt_started

-----------------------------------------------------------------------------
(* Reads of the port mapping during a start *)

\* the start() in progress can take its next step, the return of its inspect
\* call, after which its write guard is dropped
StartCanProceed == ENABLED (\E r \in InspectAnswers : inspect_returns(r))

\* C20 as stated: a get_host_port call made while a start() on the same handle
\* is in progress is never blocked forever: whenever the reader is parked on
\* the lock of the RunningState slot, the start() that holds the write guard
\* can go on to release it.
C20_ReadNeverBlockedForever == blocked => StartCanProceed

-----------------------------------------------------------------------------
(* The frame of the RunningState slot *)

\* the step is a get_host_port call: it returns a read or parks the reader
IsGetHostPortStep == (IsSome(lastRead') /\ lastRead' # lastRead) \/ (blocked' /\ ~blocked)

\* a step that changes the slot is the return of a successful start(), which
\* sets it, or the return of a successful stop() or kill(), which clears it;
\* a step in which a call returns an error, and a get_host_port, leave it
SlotFrameSteps ==
    /\ running_state' # running_state =>
         /\ pc # "idle" /\ pc' = "idle" /\ lastResult' = Ok
         /\ \/ lastOp = "start" /\ running_state' # None
            \/ lastOp \in { "stop", "kill" } /\ running_state' = None
    /\ (pc' = "idle" /\ IsErr(lastResult') /\ lastResult = NoResult) =>
         running_state' = running_state
    /\ IsGetHostPortStep => running_state' = running_state

\* between the begin of a call and its return the slot is what it was when the
\* call began, and so it is after a call that returned an error; a start() that
\* returned Ok has set it and a stop() or kill() that returned Ok has cleared it
SlotFrameStates ==
    /\ (HandleExists /\ pc # "idle") => running_state = slotAtCall
    /\ \A op \in { "start", "stop", "kill" } :
         (Returned(op) /\ IsErr(lastResult)) => running_state = slotAtCall
    /\ (Returned("start") /\ lastResult = Ok) => running_state # None
    /\ \A op \in { "stop", "kill" } :
         (Returned(op) /\ lastResult = Ok) => running_state = None

\* C21: the RunningState slot changes only when a start() returns Ok, which
\* sets it, and when a stop() or kill() returns Ok, which clears it; a start(),
\* stop() or kill() that returns an error leaves the slot as it was before the
\* call, and get_host_port never changes it.
C21_SlotFrame == []SlotFrameStates /\ [][SlotFrameSteps]_vars

\* a stop() on a started handle returned an error and the slot still holds the
\* state the start published
C21_Witness ==
    /\ Returned("stop")
    /\ IsErr(lastResult)
    /\ slotAtCall # None
    /\ running_state = slotAtCall

-----------------------------------------------------------------------------
(* What a present RunningState stands for *)

\* the step puts a state into the slot
Publishes == running_state' # None /\ running_state' # running_state

\* a state is put into the slot only by a start() whose runtime start call
\* succeeded and whose readiness wait, which followed it, returned success
PublishFollowsWait ==
    Publishes => lastOp = "start" /\ rt_started /\ waitResult = Ok

\* a present state: a start() of this handle has published it and no runtime
\* stop call of this handle has succeeded since, so the container is started
PresentMeansStarted ==
    /\ running_state # None => startedOk /\ rt_started
    /\ (IsSome(lastRead) /\ Unwrap(lastRead).port # None) => rt_started

\* C22: with the lifecycle calls of a handle made one after the other, a
\* present RunningState was published after a runtime start call of the handle
\* succeeded and the wait following it returned success, and no runtime stop
\* or kill of the handle has succeeded since; get_host_port gives a port only
\* for a container the handle has started and not stopped.
C22_PresentStateIsLive == []PresentMeansStarted /\ [][PublishFollowsWait]_vars

\* a port is read from a handle that was started, failed to stop, and is
\* still started at the runtime
C22_Witness ==
    /\ lastOp \in { "stop", "kill" }
    /\ IsErr(lastResult)
    /\ rt_started
    /\ IsSome(lastRead)
    /\ Unwrap(lastRead).port = Some(55000)

====
